---- MODULE Spec2Model ----
(***************************************************************************)
(* A model of desert's tagged-union machinery (src/desert/_fields.py), the *)
(* exception module it raises from (src/desert/exceptions.py), the entry   *)
(* points of src/desert/__init__.py that the union examples use and the    *)
(* class_schema of src/desert/_make.py behind them.                        *)
(*                                                                         *)
(* Python values are records [type, val]; a Python exception that leaves a *)
(* call is a record [exc, val] and a normal return is [exc |-> "none"].    *)
(* A dict whose order is observable (the registry's by_tag) is a sequence  *)
(* of <<key, value>> pairs in insertion order; a wire mapping, whose order *)
(* no code here reads, is a function from its keys.                        *)
(***************************************************************************)
EXTENDS Integers, Sequences, FiniteSets, TLC

VARIABLES
    by_tag,     \* TypeAndHintFieldRegistry.by_tag: sequence of <<tag, HintTagField>>
    call,       \* the last call made on the program and its arguments
    result,     \* what that call returned or raised
    item,       \* the caller's mapping, wire item or field metadata, after the call (None
                \* when the call took none)
    first       \* per tag, the (hint, tag, field) of the first register call naming it

vars == <<by_tag, call, result, item, first>>

----------------------------------------------------------------------------
(* Python values.                                                          *)

None == [type |-> "NoneType", val |-> "None"]
PyStr(s) == [type |-> "str", val |-> s]
PyInt(n) == [type |-> "int", val |-> n]
PyList(seq) == [type |-> "list", val |-> seq]
PyDict(f) == [type |-> "dict", val |-> f]
Obj(cls, attrs) == [type |-> cls, val |-> attrs]

EmptyMap == [k \in {} |-> None]

\* A normal return and a raised exception.
Return(v) == [exc |-> "none", val |-> v]
Exception(name, args) == [exc |-> name, val |-> args]
Raised(r) == r.exc # "none"

Range(seq) == {seq[i] : i \in 1..Len(seq)}

----------------------------------------------------------------------------
(* src/desert/exceptions.py: the names the module defines.                 *)

ExceptionsModule ==
    {"DesertException", "MultipleMatchingHintsFound", "NoMatchingHintFound",
     "NotAnAttrsClassOrDataclass", "TypeKeyCollision", "UnknownType"}

\* `raise desert.exceptions.<name>(...)`: the attribute lookup comes first, and a
\* name the module does not define raises AttributeError in its place.
RaiseDesert(name, args) ==
    IF name \in ExceptionsModule
    THEN Exception(name, args)
    ELSE Exception("AttributeError", <<"desert.exceptions", name>>)

----------------------------------------------------------------------------
(* Type hints and the runtime checks from_object makes on them.            *)

\* A hint is a class (generic = FALSE) or a typing alias of origin `name`,
\* subscripted when args is not empty.
ClassHint(c) == [generic |-> FALSE, name |-> c, args |-> <<>>]
Alias(origin, args) == [generic |-> TRUE, name |-> origin, args |-> args]

List_str == Alias("list", <<"str">>)
Sequence_str == Alias("Sequence", <<"str">>)
SequenceHint == Alias("Sequence", <<>>)
CollectionHint == Alias("Collection", <<>>)
Cat == ClassHint("Cat")
Dog == ClassHint("Dog")

\* The direct bases of the runtime classes of the universe.
Bases(c) ==
    CASE c = "list" -> {"Sequence"}
      [] c = "str" -> {"Sequence"}
      [] c = "Sequence" -> {"Collection"}
      [] OTHER -> {}

RECURSIVE IsSubclass(_, _)
IsSubclass(c, d) == c = d \/ \E b \in Bases(c) : IsSubclass(b, d)

\* typeguard.check_type(value, hint): the value is an instance of the hint's
\* class or origin, and for a subscripted sequence alias every element is an
\* instance of the argument.
CheckTypePasses(value, hint) ==
    /\ IsSubclass(value.type, hint.name)
    /\ hint.args # <<>> =>
          /\ value.type = "list"
          /\ \A i \in 1..Len(value.val) : IsSubclass(value.val[i].type, hint.args[1])

\* isinstance(value, hint): a subscripted alias raises TypeError.
IsInstance(value, hint) ==
    IF hint.generic /\ hint.args # <<>>
    THEN "TypeError"
    ELSE IF IsSubclass(value.type, hint.name) THEN "True" ELSE "False"

\* typing_inspect.get_origin(hint): None for a plain class.
GetOrigin(hint) == IF hint.generic THEN hint.name ELSE "None"

----------------------------------------------------------------------------
(* An insertion-ordered dict as a sequence of <<key, value>> pairs.        *)

DictKeys(d) == {d[i][1] : i \in 1..Len(d)}
DictContains(d, k) == k \in DictKeys(d)
DictGet(d, k) == d[CHOOSE i \in 1..Len(d) : d[i][1] = k][2]
DictValues(d) == [i \in 1..Len(d) |-> d[i][2]]

\* d[k] = v: a present key keeps its place and takes the new value, a new key
\* goes to the end.
DictSet(d, k, v) ==
    IF DictContains(d, k)
    THEN [i \in 1..Len(d) |-> IF d[i][1] = k THEN <<k, v>> ELSE d[i]]
    ELSE Append(d, <<k, v>>)

----------------------------------------------------------------------------
(* TypeAndHintFieldRegistry.                                               *)

HintTagField(hint, tag, field) == [hint |-> hint, tag |-> tag, field |-> field]

\* register without the test for a tag already present.
register_overwriting(d, hint, tag, field) ==
    [res |-> Return(None), by_tag |-> DictSet(d, tag, HintTagField(hint, tag, field))]

\* register(hint, tag, field) on registry d: what the call raises or returns,
\* and by_tag after it.
register(d, hint, tag, field) ==
    IF DictContains(d, tag)
    THEN [res |-> RaiseDesert("TagAlreadyRegistered", tag), by_tag |-> d]
    ELSE [res |-> Return(None),
          by_tag |-> DictSet(d, tag, HintTagField(hint, tag, field))]

\* Score without the point for the origin.
Score_without_origin(type_tag_field, value) ==
    LET hint == type_tag_field.hint
    IN  (IF CheckTypePasses(value, hint) THEN 2 ELSE 0)
        + (IF IsInstance(value, hint) = "True" THEN 3 ELSE 0)

\* Score with the point for the origin given whatever the checks said.
Score_origin_unguarded(type_tag_field, value) ==
    LET hint == type_tag_field.hint
    IN  (IF CheckTypePasses(value, hint) THEN 2 ELSE 0)
        + (IF IsInstance(value, hint) = "True" THEN 3 ELSE 0)
        + (IF value.type = GetOrigin(hint) THEN 1 ELSE 0)

\* The score from_object gives one entry for a value.
Score(type_tag_field, value) ==
    LET hint == type_tag_field.hint
        checked == IF CheckTypePasses(value, hint) THEN 2 ELSE 0
        score == checked + (IF IsInstance(value, hint) = "True" THEN 3 ELSE 0)
    IN  IF score > 0 /\ value.type = GetOrigin(hint) THEN score + 1 ELSE score

\* The scores dict, keyed by entry, filled in the order of by_tag.values().
RECURSIVE ScoresUpTo(_, _, _)
ScoresUpTo(d, value, n) ==
    IF n = 0
    THEN <<>>
    ELSE DictSet(ScoresUpTo(d, value, n - 1), d[n][2], Score(d[n][2], value))

Scores(d, value) == ScoresUpTo(d, value, Len(d))

Max(S) == CHOOSE x \in S : \A y \in S : y <= x

\* from_object returning the first of the entries with the high score.
from_object_first_of_tied(d, value) ==
    LET scores == Scores(d, value)
        score_values == Range(DictValues(scores))
    IN  IF score_values = {}
        THEN Exception("ValueError", "max() arg is an empty sequence")
        ELSE LET high_score == Max(score_values)
                 IsHigh(pair) == pair[2] = high_score
                 potential == SelectSeq(scores, IsHigh)
             IN  IF high_score = 0
                 THEN RaiseDesert("NoMatchingHintFound",
                          [hints |-> [i \in 1..Len(d) |-> d[i][2].hint],
                           value |-> value])
                 ELSE Return(potential[1][1])

from_object(d, value) ==
    LET scores == Scores(d, value)
        score_values == Range(DictValues(scores))
    IN  IF score_values = {}
        THEN Exception("ValueError", "max() arg is an empty sequence")
        ELSE LET high_score == Max(score_values)
                 IsHigh(pair) == pair[2] = high_score
                 potential == SelectSeq(scores, IsHigh)
             IN  IF high_score = 0
                 THEN RaiseDesert("NoMatchingHintFound",
                          [hints |-> [i \in 1..Len(d) |-> d[i][2].hint],
                           value |-> value])
                 ELSE IF Len(potential) # 1
                 THEN RaiseDesert("MultipleMatchingHintsFound",
                          [hints |-> [i \in 1..Len(potential) |-> potential[i][1].hint],
                           value |-> value])
                 ELSE Return(potential[1][1])

\* from_tag(tag): self.by_tag[tag]. The tag is whatever the wire held: an
\* unhashable one raises TypeError, any other absent one KeyError.
from_tag(d, tag) ==
    IF tag.type \in {"dict", "list"}
    THEN Exception("TypeError", "unhashable type")
    ELSE IF tag.type = "str" /\ DictContains(d, tag.val)
    THEN Return(DictGet(d, tag.val))
    ELSE Exception("KeyError", tag)

----------------------------------------------------------------------------
(* Wire mappings and the three tag-placement conventions.                  *)

MapRemove(f, k) == [x \in DOMAIN f \ {k} |-> f[x]]
MapPut(f, k, v) == [x \in DOMAIN f \cup {k} |-> IF x = k THEN v ELSE f[x]]
\* {**f, **g}: g's entries win.
MapMerge(f, g) == [x \in DOMAIN f \cup DOMAIN g |-> IF x \in DOMAIN g THEN g[x] ELSE f[x]]

TaggedValue(tag, value) == [tag |-> tag, value |-> value]

default_tagged_type_key == "#type"
default_tagged_value_key == "#value"

\* Every from_* below gives the call's outcome and the caller's mapping after it.

from_externally_tagged(it) ==
    [res |-> IF Cardinality(DOMAIN it.val) # 1
             THEN Exception("ValueError", "unpack")
             ELSE LET tag == CHOOSE k \in DOMAIN it.val : TRUE
                  IN  Return(TaggedValue(PyStr(tag), it.val[tag])),
     item |-> it]

to_externally_tagged(tag, value) == Return(PyDict(MapPut(EmptyMap, tag.val, value)))

\* from_internally_tagged leaving the type key among the payload's entries.
from_internally_tagged_keeping_key(it, type_key) ==
    [res |-> IF type_key \notin DOMAIN it.val
             THEN Exception("KeyError", PyStr(type_key))
             ELSE Return(TaggedValue(it.val[type_key], it)),
     item |-> it]

from_internally_tagged(it, type_key) ==
    [res |-> IF type_key \notin DOMAIN it.val
             THEN Exception("KeyError", PyStr(type_key))
             ELSE Return(TaggedValue(it.val[type_key],
                                     PyDict(MapRemove(it.val, type_key)))),
     item |-> it]

\* to_internally_tagged without the collision test: the tag takes the key.
to_internally_tagged_overwriting(tag, value, type_key) ==
    IF value.type # "dict"
    THEN Exception("TypeError", "argument after ** must be a mapping")
    ELSE Return(PyDict(MapPut(value.val, type_key, tag)))

\* `type_key in value` is a key test on a dict and an element test on a list;
\* `**value` needs a mapping.
to_internally_tagged(tag, value, type_key) ==
    LET collides == \/ value.type = "dict" /\ type_key \in DOMAIN value.val
                    \/ value.type = "list" /\ PyStr(type_key) \in Range(value.val)
    IN  IF collides
        THEN RaiseDesert("TypeKeyCollision", [type_key |-> type_key, value |-> value])
        ELSE IF value.type # "dict"
        THEN Exception("TypeError", "argument after ** must be a mapping")
        ELSE Return(PyDict(MapMerge(MapPut(EmptyMap, type_key, tag), value.val)))

\* from_adjacently_tagged without the length test after the two pops.
from_adjacently_tagged_ignoring_extra(it, type_key, value_key) ==
    IF type_key \notin DOMAIN it.val
    THEN [res |-> Exception("KeyError", PyStr(type_key)), item |-> it]
    ELSE LET tag == it.val[type_key]
             popped == MapRemove(it.val, type_key)
         IN  IF value_key \notin DOMAIN popped
             THEN [res |-> Exception("KeyError", PyStr(value_key)),
                   item |-> PyDict(popped)]
             ELSE [res |-> Return(TaggedValue(tag, popped[value_key])),
                   item |-> PyDict(MapRemove(popped, value_key))]

\* item.pop(type_key), item.pop(value_key), then the length test: each pop that
\* succeeds has already taken its key out of the caller's dict.
from_adjacently_tagged(it, type_key, value_key) ==
    IF type_key \notin DOMAIN it.val
    THEN [res |-> Exception("KeyError", PyStr(type_key)), item |-> it]
    ELSE LET tag == it.val[type_key]
             popped == MapRemove(it.val, type_key)
         IN  IF value_key \notin DOMAIN popped
             THEN [res |-> Exception("KeyError", PyStr(value_key)),
                   item |-> PyDict(popped)]
             ELSE LET serialized_value == popped[value_key]
                      rest == MapRemove(popped, value_key)
                  IN  [res |-> IF Cardinality(DOMAIN rest) > 0
                               THEN Exception("Exception", <<>>)
                               ELSE Return(TaggedValue(tag, serialized_value)),
                       item |-> PyDict(rest)]

\* to_adjacently_tagged with the tag and the payload under each other's key.
to_adjacently_tagged_swapped(tag, value, type_key, value_key) ==
    Return(PyDict(MapPut(MapPut(EmptyMap, value_key, tag), type_key, value)))

to_adjacently_tagged(tag, value, type_key, value_key) ==
    Return(PyDict(MapPut(MapPut(EmptyMap, type_key, tag), value_key, value)))

\* functools.partial(func, **keywords); a plain function has no keywords.
Partial(func, keywords) == [func |-> func, keywords |-> keywords]
NoKeywords == [k \in {} |-> ""]

CallFromTagged(f, it) ==
    CASE f.func = "from_externally_tagged" -> from_externally_tagged(it)
      [] f.func = "from_internally_tagged" ->
            from_internally_tagged(it, f.keywords["type_key"])
      [] f.func = "from_adjacently_tagged" ->
            from_adjacently_tagged(it, f.keywords["type_key"], f.keywords["value_key"])

CallToTagged(f, tag, value) ==
    CASE f.func = "to_externally_tagged" -> to_externally_tagged(tag, value)
      [] f.func = "to_internally_tagged" ->
            to_internally_tagged(tag, value, f.keywords["type_key"])
      [] f.func = "to_adjacently_tagged" ->
            to_adjacently_tagged(tag, value, f.keywords["type_key"], f.keywords["value_key"])

----------------------------------------------------------------------------
(* The marshmallow codecs the registry entries carry.                      *)

Missing == [type |-> "missing", val |-> "missing"]

\* marshmallow's get_value: a key of a dict, an attribute of an object.
GetValue(obj, attr) == IF attr \in DOMAIN obj.val THEN obj.val[attr] ELSE Missing

\* The declared fields of the dataclasses Cat and Dog, all of type str.
SchemaFields(cls) == {"name", "color"}

\* fields.String
String_serialize(value) == IF value.type = "str" THEN value ELSE PyStr(ToString(value.val))
String_deserialize(value) ==
    IF value.type = "str" THEN Return(value) ELSE Exception("ValidationError", "Not a valid string.")

\* fields.List(fields.String())
ListString_serialize(value) ==
    IF value.type = "list"
    THEN Return(PyList([i \in 1..Len(value.val) |-> String_serialize(value.val[i])]))
    ELSE Exception("TypeError", "object is not iterable")

ListString_deserialize(value) ==
    IF value.type # "list"
    THEN Exception("ValidationError", "Not a valid list.")
    ELSE IF \E i \in 1..Len(value.val) : Raised(String_deserialize(value.val[i]))
    THEN Exception("ValidationError", "Not a valid string.")
    ELSE Return(value)

\* fields.Nested(<schema of cls>): dump reads the declared fields the object
\* has; load wants a dict of exactly the declared fields and calls cls(**data).
Nested_serialize(cls, value) ==
    LET present == {k \in SchemaFields(cls) :
                        value.type \notin {"list", "str", "int"} /\ k \in DOMAIN value.val}
    IN  Return(PyDict([k \in present |-> String_serialize(value.val[k])]))

Nested_deserialize(cls, value) ==
    IF value.type # "dict"
    THEN Exception("ValidationError", "Invalid input type.")
    ELSE IF DOMAIN value.val # SchemaFields(cls)
    THEN Exception("ValidationError", "Unknown or missing field.")
    ELSE IF \E k \in DOMAIN value.val : Raised(String_deserialize(value.val[k]))
    THEN Exception("ValidationError", "Not a valid string.")
    ELSE Return(Obj(cls, value.val))

ListString == [codec |-> "List", of |-> "String"]
Nested(cls) == [codec |-> "Nested", of |-> cls]

\* Field.serialize(attr, obj): read the attribute, then the codec's _serialize.
FieldSerialize(field, attr, obj) ==
    LET value == GetValue(obj, attr)
    IN  IF value = Missing
        THEN Return(Missing)
        ELSE IF field.codec = "List"
        THEN ListString_serialize(value)
        ELSE Nested_serialize(field.of, value)

\* Field.deserialize(value)
FieldDeserialize(field, value) ==
    IF field.codec = "List"
    THEN ListString_deserialize(value)
    ELSE Nested_deserialize(field.of, value)

----------------------------------------------------------------------------
(* TaggedUnionField and its constructors.                                  *)

\* registry.from_object and registry.from_tag are bound methods: they read the
\* registry as it is when they are called.
BoundMethod(self, name) == [self |-> self, method |-> name]

TaggedUnionField(fo, ft, from_tagged, to_tagged) ==
    [from_object |-> fo, from_tag |-> ft, from_tagged |-> from_tagged, to_tagged |-> to_tagged]

\* A keyword argument the caller gave, or the parameter's default.
Param(kw, name, default) == IF name \in DOMAIN kw THEN kw[name] ELSE default

externally_tagged_union(fo, ft) ==
    TaggedUnionField(fo, ft,
        Partial("from_externally_tagged", NoKeywords),
        Partial("to_externally_tagged", NoKeywords))

externally_tagged_union_from_registry(registry) ==
    externally_tagged_union(BoundMethod(registry, "from_object"),
                            BoundMethod(registry, "from_tag"))

internally_tagged_union(fo, ft, kw) ==
    LET type_key == Param(kw, "type_key", default_tagged_type_key)
    IN  TaggedUnionField(fo, ft,
            Partial("from_internally_tagged", "type_key" :> type_key),
            Partial("to_internally_tagged", "type_key" :> type_key))

internally_tagged_union_from_registry(registry, kw) ==
    internally_tagged_union(BoundMethod(registry, "from_object"),
                            BoundMethod(registry, "from_tag"),
                            "type_key" :> Param(kw, "type_key", default_tagged_type_key))

adjacently_tagged_union(fo, ft, kw) ==
    LET type_key == Param(kw, "type_key", default_tagged_type_key)
        value_key == Param(kw, "value_key", default_tagged_value_key)
    IN  TaggedUnionField(fo, ft,
            Partial("from_adjacently_tagged",
                    "type_key" :> type_key @@ "value_key" :> value_key),
            Partial("to_adjacently_tagged",
                    "type_key" :> type_key @@ "value_key" :> value_key))

\* The from-registry constructor handing each reserved key to the other's
\* parameter.
adjacently_tagged_union_from_registry_swapping_keys(registry, kw) ==
    adjacently_tagged_union(BoundMethod(registry, "from_object"),
                            BoundMethod(registry, "from_tag"),
                            "type_key" :> Param(kw, "value_key", default_tagged_value_key)
                            @@ "value_key" :> Param(kw, "type_key", default_tagged_type_key))

adjacently_tagged_union_from_registry(registry, kw) ==
    adjacently_tagged_union(BoundMethod(registry, "from_object"),
                            BoundMethod(registry, "from_tag"),
                            "type_key" :> Param(kw, "type_key", default_tagged_type_key)
                            @@ "value_key" :> Param(kw, "value_key", default_tagged_value_key))

\* Calling a bound method of the registry whose by_tag is d.
CallFromObject(m, d, value) == from_object(d, value)
CallFromTag(m, d, tag) == from_tag(d, tag)

\* _deserialize decoding with the codec of the first registered entry when the
\* registry has one, whatever the wire tag.
TaggedUnionField_deserialize_first_codec(self, d, value) ==
    LET unwrapped == CallFromTagged(self.from_tagged, value)
        tagged_value == unwrapped.res.val
    IN  [res |-> IF Raised(unwrapped.res)
                 THEN unwrapped.res
                 ELSE IF d = <<>>
                 THEN Exception("KeyError", tagged_value.tag)
                 ELSE FieldDeserialize(d[1][2].field, tagged_value.value),
         item |-> unwrapped.item]

\* TaggedUnionField._deserialize(value): the outcome, and the caller's mapping
\* after the call.
TaggedUnionField_deserialize(self, d, value) ==
    LET unwrapped == CallFromTagged(self.from_tagged, value)
        tagged_value == unwrapped.res.val
        type_tag_field == CallFromTag(self.from_tag, d, tagged_value.tag)
    IN  [res |-> IF Raised(unwrapped.res)
                 THEN unwrapped.res
                 ELSE IF Raised(type_tag_field)
                 THEN type_tag_field
                 ELSE FieldDeserialize(type_tag_field.val.field, tagged_value.value),
         item |-> unwrapped.item]

\* _serialize labelling the payload with the tag of the first registered entry.
TaggedUnionField_serialize_first_tag(self, d, value, attr, obj) ==
    LET type_tag_field == CallFromObject(self.from_object, d, value)
        field == type_tag_field.val.field
        serialized_value == FieldSerialize(field, attr, obj)
    IN  IF Raised(type_tag_field)
        THEN type_tag_field
        ELSE IF Raised(serialized_value)
        THEN serialized_value
        ELSE CallToTagged(self.to_tagged, PyStr(d[1][2].tag), serialized_value.val)

\* TaggedUnionField._serialize(value, attr, obj)
TaggedUnionField_serialize(self, d, value, attr, obj) ==
    LET type_tag_field == CallFromObject(self.from_object, d, value)
        field == type_tag_field.val.field
        tag == type_tag_field.val.tag
        serialized_value == FieldSerialize(field, attr, obj)
    IN  IF Raised(type_tag_field)
        THEN type_tag_field
        ELSE IF Raised(serialized_value)
        THEN serialized_value
        ELSE CallToTagged(self.to_tagged, PyStr(tag), serialized_value.val)

\* Field.serialize(attr, obj) of the union field: marshmallow reads the
\* attribute and hands it to _serialize.
TaggedUnionField_serialize_attr(self, d, attr, obj) ==
    TaggedUnionField_serialize(self, d, GetValue(obj, attr), attr, obj)

----------------------------------------------------------------------------
(* The inputs the calls are made with.                                     *)

MaxLen == 2

Tags == {"cat", "dog", "seq"}
Hints == {List_str, Sequence_str, SequenceHint, CollectionHint, Cat}
Fields == {ListString, Nested("Cat")}

Elements == {PyStr("a"), PyInt(1)}

RECURSIVE SeqsUpTo(_, _)
SeqsUpTo(S, n) ==
    IF n = 0
    THEN {<<>>}
    ELSE LET shorter == SeqsUpTo(S, n - 1)
         IN  shorter \cup {Append(q, x) : q \in {r \in shorter : Len(r) = n - 1}, x \in S}

Max_the_cat == Obj("Cat", [name |-> PyStr("Max"), color |-> PyStr("tuxedo")])
An_object == Obj("C", EmptyMap)

Values == {PyList(q) : q \in SeqsUpTo(Elements, MaxLen)} \cup {Max_the_cat, An_object}

\* The union fields under test, built from the registry with the default keys.
UnionFields ==
    {externally_tagged_union_from_registry("registry"),
     internally_tagged_union_from_registry("registry", NoKeywords),
     adjacently_tagged_union_from_registry("registry", NoKeywords)}

Payloads == {PyDict([name |-> PyStr("Max"), color |-> PyStr("tuxedo")]),
             PyList(<<PyStr("a")>>)}

\* Wire items a caller may hand to deserialize: well formed for some tag and
\* payload, or malformed.
ExternalWires ==
    {PyDict(t :> p) : t \in Tags, p \in Payloads}
    \cup {PyDict(EmptyMap), PyDict("cat" :> PyList(<<>>) @@ "dog" :> PyList(<<>>))}

InternalWires ==
    {PyDict(("#type" :> PyStr(t)) @@ p.val) : t \in Tags, p \in {q \in Payloads : q.type = "dict"}}
    \cup {PyDict("#type" :> PyStr(t)) : t \in Tags}
    \cup {PyDict([name |-> PyStr("Max"), color |-> PyStr("tuxedo")])}

AdjacentWires ==
    {PyDict("#type" :> PyStr(t) @@ "#value" :> p) : t \in Tags, p \in Payloads}
    \cup {PyDict("#type" :> PyStr("cat") @@ "#value" :> PyList(<<>>) @@ "extra" :> PyInt(1)),
          PyDict("#type" :> PyStr("cat")),
          PyDict("#value" :> PyList(<<>>))}

Wires(field) ==
    CASE field.from_tagged.func = "from_externally_tagged" -> ExternalWires
      [] field.from_tagged.func = "from_internally_tagged" -> InternalWires
      [] field.from_tagged.func = "from_adjacently_tagged" -> AdjacentWires

----------------------------------------------------------------------------
(* The registry and the union fields built on it.                          *)

NoFirst == [t \in {} |-> None]

Init ==
    /\ by_tag = <<>>
    /\ call = [op |-> "init"]
    /\ result = Return(None)
    /\ item = None
    /\ first = NoFirst

\* A behaviour is one test: the registry is populated by register calls, then
\* one call is made and its outcome observed. The calls below leave by_tag as
\* it is and their outcome depends on by_tag and their arguments alone, so
\* every (by_tag, call, result) a longer run reaches is reached this way.
Populating == call.op = "init" \/ (call.op = "register" /\ ~Raised(result))

Register(hint, tag, field) ==
    LET r == register(by_tag, hint, tag, field)
    IN  /\ Populating
        /\ by_tag' = r.by_tag
        /\ call' = [op |-> "register", hint |-> hint, tag |-> tag, field |-> field,
                    before |-> by_tag]
        /\ result' = r.res
        /\ item' = None
        /\ first' = IF tag \in DOMAIN first
                    THEN first
                    ELSE first @@ (tag :> HintTagField(hint, tag, field))

FromObject(value) ==
    /\ Populating
    /\ call' = [op |-> "from_object", value |-> value]
    /\ result' = from_object(by_tag, value)
    /\ item' = None
    /\ UNCHANGED <<by_tag, first>>

FromTag(tag) ==
    /\ Populating
    /\ call' = [op |-> "from_tag", tag |-> tag]
    /\ result' = from_tag(by_tag, PyStr(tag))
    /\ item' = None
    /\ UNCHANGED <<by_tag, first>>

Serialize(field, value) ==
    LET obj == PyDict("key" :> value)
    IN  /\ Populating
        /\ call' = [op |-> "serialize", field |-> field, attr |-> "key", obj |-> obj]
        /\ result' = TaggedUnionField_serialize_attr(field, by_tag, "key", obj)
        /\ item' = None
        /\ UNCHANGED <<by_tag, first>>

Deserialize(field, wire) ==
    LET r == TaggedUnionField_deserialize(field, by_tag, wire)
    IN  /\ Populating
        /\ call' = [op |-> "deserialize", field |-> field, value |-> wire]
        /\ result' = r.res
        /\ item' = r.item
        /\ UNCHANGED <<by_tag, first>>

Next ==
    \/ \E hint \in Hints, tag \in Tags, field \in Fields : Register(hint, tag, field)
    \/ \E value \in Values : FromObject(value)
    \/ \E tag \in Tags : FromTag(tag)
    \/ \E field \in UnionFields, value \in Values : Serialize(field, value)
    \/ \E field \in UnionFields : \E wire \in Wires(field) : Deserialize(field, wire)

Spec == Init /\ [][Next]_vars

----------------------------------------------------------------------------
(* The tag-placement conventions on their own: a union field is built with *)
(* the keyword arguments the caller gives and one call is made on its      *)
(* from_tagged or to_tagged.                                               *)

KeyChoices == {"type", "#value"}
KeywordChoices(names) == UNION {[S -> KeyChoices] : S \in SUBSET names}

\* A convention and the keyword arguments its constructor accepts.
Constructions ==
    {<<"external", NoKeywords>>}
    \cup {<<"internal", kw>> : kw \in KeywordChoices({"type_key"})}
    \cup {<<"adjacent", kw>> : kw \in KeywordChoices({"type_key", "value_key"})}

Construct(c) ==
    CASE c[1] = "external" ->
            externally_tagged_union(BoundMethod("registry", "from_object"),
                                    BoundMethod("registry", "from_tag"))
      [] c[1] = "internal" ->
            internally_tagged_union(BoundMethod("registry", "from_object"),
                                    BoundMethod("registry", "from_tag"), c[2])
      [] c[1] = "adjacent" ->
            adjacently_tagged_union(BoundMethod("registry", "from_object"),
                                    BoundMethod("registry", "from_tag"), c[2])

TaggedPayloads ==
    {PyDict([name |-> PyStr("Max"), color |-> PyStr("tuxedo")]),
     PyDict("type" :> PyInt(1)),
     PyDict("#type" :> PyStr("dog")),
     PyDict(EmptyMap),
     PyList(<<PyStr("a")>>)}

WireKeys == {"#type", "#value", "type", "cat"}
WireValues == {PyStr("cat"), PyDict([name |-> PyStr("Max"), color |-> PyStr("tuxedo")])}
RawWires == {PyDict(f) : f \in UNION {[S -> WireValues] : S \in SUBSET WireKeys}}

ToTagged(c, tag, payload) ==
    LET field == Construct(c)
    IN  /\ Populating
        /\ call' = [op |-> "to_tagged", convention |-> c[1], kw |-> c[2], field |-> field,
                    tag |-> tag, value |-> payload]
        /\ result' = CallToTagged(field.to_tagged, PyStr(tag), payload)
        /\ item' = None
        /\ UNCHANGED <<by_tag, first>>

FromTagged(c, wire) ==
    LET field == Construct(c)
        r == CallFromTagged(field.from_tagged, wire)
    IN  /\ Populating
        /\ call' = [op |-> "from_tagged", convention |-> c[1], kw |-> c[2], field |-> field,
                    value |-> wire]
        /\ result' = r.res
        /\ item' = r.item
        /\ UNCHANGED <<by_tag, first>>

\* from_tagged(to_tagged(tag, payload))
WrapUnwrap(c, tag, payload) ==
    LET field == Construct(c)
        wrapped == CallToTagged(field.to_tagged, PyStr(tag), payload)
        r == CallFromTagged(field.from_tagged, wrapped.val)
    IN  /\ Populating
        /\ call' = [op |-> "wrap_unwrap", convention |-> c[1], kw |-> c[2], field |-> field,
                    tag |-> tag, value |-> payload]
        /\ result' = IF Raised(wrapped) THEN wrapped ELSE r.res
        /\ item' = IF Raised(wrapped) THEN None ELSE r.item
        /\ UNCHANGED <<by_tag, first>>

\* to_tagged(tag, value) for TaggedValue(tag, value) = from_tagged(wire)
UnwrapWrap(c, wire) ==
    LET field == Construct(c)
        r == CallFromTagged(field.from_tagged, wire)
    IN  /\ Populating
        /\ call' = [op |-> "unwrap_wrap", convention |-> c[1], kw |-> c[2], field |-> field,
                    value |-> wire]
        /\ result' = IF Raised(r.res)
                     THEN r.res
                     ELSE CallToTagged(field.to_tagged, r.res.val.tag, r.res.val.value)
        /\ item' = r.item
        /\ UNCHANGED <<by_tag, first>>

NextTagged ==
    \/ \E c \in Constructions, tag \in Tags, payload \in TaggedPayloads : ToTagged(c, tag, payload)
    \/ \E c \in Constructions, wire \in RawWires : FromTagged(c, wire)
    \/ \E c \in Constructions, tag \in Tags, payload \in TaggedPayloads : WrapUnwrap(c, tag, payload)
    \/ \E c \in Constructions, wire \in RawWires : UnwrapWrap(c, wire)

SpecTagged == Init /\ [][NextTagged]_vars

----------------------------------------------------------------------------
(* Building schemas: the entry points of desert/__init__.py and the       *)
(* class_schema of desert/_make.py.                                        *)

\* The names desert/_make.py binds at module level.
MakeModule ==
    {"dataclass", "add_schema", "class_schema", "field_for_schema", "NoneType",
     "_native_to_marshmallow", "_base_schema", "_get_field_default",
     "schema", "schema_class"}

\* The parameters class_schema declares.
class_schema_parameters == {"clazz"}

\* desert.metadata(field): reads desert._make._DESERT_SENTINEL for the key.
desert_metadata(marshmallow_field) ==
    IF "_DESERT_SENTINEL" \in MakeModule
    THEN Return("_DESERT_SENTINEL" :> ("marshmallow_field" :> marshmallow_field))
    ELSE Exception("AttributeError", <<"desert._make", "_DESERT_SENTINEL">>)

create_metadata(marshmallow_field) == desert_metadata(marshmallow_field)

\* desert.field(marshmallow_field, metadata): the metadata of the new
\* dataclasses.field.
desert_field(marshmallow_field, metadata) ==
    LET meta == create_metadata(marshmallow_field)
    IN  IF Raised(meta) THEN meta ELSE Return(metadata @@ meta.val)

\* desert.ib(marshmallow_field, metadata): the metadata of the new attr.ib.
desert_ib(marshmallow_field, metadata) ==
    LET meta == create_metadata(marshmallow_field)
    IN  IF Raised(meta) THEN meta ELSE Return(metadata @@ meta.val)

String == [codec |-> "String"]

\* Python's True and False.
PyBool(b) == [type |-> "bool", val |-> IF b THEN "True" ELSE "False"]
\* A zero-argument callable returning `value`; takes_self is attrs' flag.
Factory(value, takes_self) == [type |-> "factory", val |-> value, takes_self |-> takes_self]
PyTuple(seq) == [type |-> "tuple", val |-> seq]
\* bool(v)
Truthy(v) ==
    ~ \/ v.type \in {"NoneType", "missing"}
      \/ v.type = "bool" /\ v.val = "False"
      \/ v.type = "int" /\ v.val = 0
      \/ v.type \in {"list", "tuple"} /\ v.val = <<>>

\* Type declarations: a key of _native_to_marshmallow, a subscripted generic
\* with its origin and arguments, None's type, the `...` of Tuple[T, ...], a
\* NewType, an Enum, a forward reference, and a class (below).
Native(name) == [kind |-> "native", name |-> name]
Generic(origin, args) == [kind |-> "generic", name |-> origin, args |-> args]
NoneType == [kind |-> "NoneType", name |-> "NoneType"]
Ellipsis == [kind |-> "Ellipsis", name |-> "Ellipsis"]
NewType(name, supertype) == [kind |-> "newtype", name |-> name, supertype |-> supertype]
EnumType(name) == [kind |-> "enum", name |-> name]
ForwardRef(name) == [kind |-> "forward", name |-> name]
\* An annotation written as a string, as dataclasses.fields and attr.fields
\* hand it on: class_schema reads field.type and does not evaluate it.
StringAnnotation(name) == [kind |-> "str", name |-> name]
Optional(typ) == Generic("Union", <<typ, NoneType>>)

\* A class: its name, whether dataclasses or attrs decorated it, and its
\* attributes, each a name, a type hint and the metadata of its field.
Class(name, decorated, fields) ==
    [kind |-> "class", name |-> name, decorated |-> decorated, fields |-> fields]
\* The same class with methods of the given names defined in its body.
WithMethods(clazz, names) == clazz @@ [methods |-> names]
\* k.startswith("_"), for the method names declared in this model.
StartsWithUnderscore(k) == k \in {"_helper", "__repr__"}
\* The names inspect.getmembers(clazz) gives that do not start with "_": the
\* methods, and the attributes whose plain default the decorator left on the
\* class.
PublicMembers(clazz) ==
    {m \in (IF "methods" \in DOMAIN clazz THEN clazz.methods ELSE {}) : ~StartsWithUnderscore(m)}
    \cup {clazz.fields[i].name : i \in {j \in 1..Len(clazz.fields) :
                                          clazz.fields[j].default.type # "missing"}}
\* A field descriptor of dataclasses.fields or attr.fields.
FieldDescriptor(name, type, default, default_factory, metadata, init) ==
    [name |-> name, type |-> type, default |-> default, default_factory |-> default_factory,
     metadata |-> metadata, init |-> init]
\* An attribute declared without a default.
Attribute(name, type, metadata) == FieldDescriptor(name, type, Missing, Missing, metadata, TRUE)

VariantClass(name) ==
    Class(name, TRUE, <<Attribute("name", Native("str"), EmptyMap),
                        Attribute("color", Native("str"), EmptyMap)>>)

\* _native_to_marshmallow[typ]
NativeCodec(name) ==
    CASE name = "int" -> "Integer"
      [] name = "float" -> "Float"
      [] name = "str" -> "String"
      [] name = "bool" -> "Boolean"
      [] name = "datetime" -> "DateTime"
      [] name = "time" -> "Time"
      [] name = "timedelta" -> "TimeDelta"
      [] name = "date" -> "Date"
      [] name = "Decimal" -> "Decimal"
      [] name = "UUID" -> "UUID"
      [] name = "Any" -> "Raw"

\* A marshmallow field built as Codec(..., **metadata).
Configured(base, settings) == base @@ [settings |-> settings]

\* metadata.setdefault(k, v) and metadata.get(k, default)
SetDefault(m, k, v) == IF k \in DOMAIN m THEN m ELSE MapPut(m, k, v)
Get(m, k, default) == IF k \in DOMAIN m THEN m[k] ELSE default

\* is_optional_type answering no for every Union.
IsOptionalType_never(typ) == FALSE

\* typing_inspect.is_optional_type(typ) for a Union
IsOptionalType(typ) == \E i \in 1..Len(typ.args) : typ.args[i].kind = "NoneType"

\* _get_field_default handing on a factory that takes self like any other.
get_field_default_ignoring_takes_self(field) ==
    IF field.default_factory.type # "missing"
    THEN Return(field.default_factory)
    ELSE Return(field.default)

\* _get_field_default(field): a factory comes before a static default; an
\* attrs factory that takes self is refused.
get_field_default(field) ==
    IF field.default_factory.type # "missing"
    THEN IF field.default_factory.takes_self
         THEN Exception("NotImplementedError", "Takes self not implemented")
         ELSE Return(field.default_factory)
    ELSE Return(field.default)

RECURSIVE field_for_schema(_, _, _)
RECURSIVE class_schema(_)
RECURSIVE UnionSubfields(_, _, _)

\* field_for_schema(typ, default, metadata): the field or the exception, and
\* the dict under metadata["desert"] as the call leaves it (a fresh dict when
\* there is none; metadata=None behaves as an empty mapping).
field_for_schema(typ, default, metadata) ==
    LET given == Get(metadata, "desert", EmptyMap)
        md == IF default.type # "missing"
              THEN LET m == SetDefault(given, "default", default)
                   IN  IF ~Truthy(Get(m, "required", None))
                       THEN SetDefault(m, "missing", default)
                       ELSE m
              ELSE SetDefault(given, "required", PyBool(TRUE))
        Done(r) == [res |-> r, metadata |-> md]
        Built(base) == Done(Return(Configured(base, md)))
        Sub(i) == field_for_schema(typ.args[i], Missing, EmptyMap).res
        failing == {i \in 1..Len(typ.args) : Raised(Sub(i))}
        nested == class_schema(typ)
    IN  IF "marshmallow_field" \in DOMAIN md
        THEN Done(Return(md["marshmallow_field"]))
        ELSE IF typ.kind = "native"
        THEN Built([codec |-> NativeCodec(typ.name)])
        ELSE IF typ.kind = "generic" /\ typ.name = "list"
        THEN IF Raised(Sub(1)) THEN Done(Sub(1))
             ELSE Built([codec |-> "List", of |-> <<Sub(1).val>>])
        ELSE IF typ.kind = "generic" /\ typ.name = "tuple"
        THEN IF failing # {}
             THEN Done(Sub(CHOOSE i \in failing : \A j \in failing : i <= j))
             ELSE Built([codec |-> "Tuple", of |-> [i \in 1..Len(typ.args) |-> Sub(i).val]])
        ELSE IF typ.kind = "generic" /\ typ.name = "dict"
        THEN IF failing # {}
             THEN Done(Sub(CHOOSE i \in failing : \A j \in failing : i <= j))
             ELSE Built([codec |-> "Dict", of |-> <<Sub(1).val, Sub(2).val>>])
        ELSE IF typ.kind = "generic" /\ typ.name = "Union" /\ IsOptionalType(typ)
        THEN LET subtyp == typ.args[CHOOSE i \in 1..Len(typ.args) :
                                /\ typ.args[i].kind # "NoneType"
                                /\ \A j \in 1..(i - 1) : typ.args[j].kind = "NoneType"]
                 optional == MapPut(MapPut(MapPut(md,
                                "default", Get(md, "default", None)),
                                "missing", Get(md, "missing", None)),
                                "required", PyBool(FALSE))
             IN  field_for_schema(subtyp, Missing, "desert" :> optional)
        ELSE IF typ.kind = "generic" /\ typ.name = "Union"
        THEN LET subfields == UnionSubfields(typ.args, 1, md)
             IN  [res |-> IF Raised(subfields.res)
                          THEN subfields.res
                          ELSE Return(Configured([codec |-> "Union", of |-> subfields.res.val],
                                                 subfields.metadata)),
                  metadata |-> subfields.metadata]
        ELSE IF typ.kind = "newtype"
        THEN LET described == SetDefault(md, "description", PyStr(typ.name))
                 r == field_for_schema(typ.supertype, default, described)
             IN  [res |-> r.res, metadata |-> described]
        ELSE IF typ.kind = "enum"
        THEN Built([codec |-> "EnumField", of |-> typ.name])
        ELSE IF typ.kind = "forward"
        THEN Built(Nested(typ.name))
        ELSE IF Raised(nested)
        THEN Done(nested)
        ELSE Built(Nested(nested.val.schema))

\* [field_for_schema(subtyp, metadata={"desert": metadata}) for subtyp in
\* arguments[i:]]: every call works on the same dict.
UnionSubfields(args, i, md) ==
    IF i > Len(args)
    THEN [res |-> Return(<<>>), metadata |-> md]
    ELSE LET head == field_for_schema(args[i], Missing, "desert" :> md)
             tail == UnionSubfields(args, i + 1, head.metadata)
         IN  IF Raised(head.res)
             THEN head
             ELSE IF Raised(tail.res)
             THEN tail
             ELSE [res |-> Return(<<head.res.val>> \o tail.res.val),
                   metadata |-> tail.metadata]

\* class_schema giving every attribute a field, init=False or not.
class_schema_of_all_attributes(clazz) ==
    IF clazz.kind # "class" \/ ~clazz.decorated
    THEN RaiseDesert("NotAnAttrsClassOrDataclass", clazz.name)
    ELSE LET all == clazz.fields
             default(i) == get_field_default(all[i])
             field(i) == IF Raised(default(i))
                         THEN default(i)
                         ELSE field_for_schema(all[i].type, default(i).val,
                                               all[i].metadata).res
             failing == {i \in 1..Len(all) : Raised(field(i))}
         IN  IF failing # {}
             THEN field(CHOOSE i \in failing : \A j \in failing : i <= j)
             ELSE Return([schema |-> clazz.name, clazz |-> clazz,
                          attributes |-> PublicMembers(clazz) \cup Range([i \in 1..Len(all) |-> all[i].name]),
                          fields |-> [i \in 1..Len(all) |-> <<all[i].name, field(i).val>>]])

\* class_schema(clazz): the schema class, named after clazz, with one
\* marshmallow field per attribute that takes part in __init__, in
\* declaration order; its attributes are the public members of clazz, updated
\* with those fields.
class_schema(clazz) ==
    IF clazz.kind # "class" \/ ~clazz.decorated
    THEN RaiseDesert("NotAnAttrsClassOrDataclass", clazz.name)
    ELSE LET init == SelectSeq(clazz.fields, LAMBDA f : f.init)
             default(i) == get_field_default(init[i])
             field(i) == IF Raised(default(i))
                         THEN default(i)
                         ELSE field_for_schema(init[i].type, default(i).val,
                                               init[i].metadata).res
             failing == {i \in 1..Len(init) : Raised(field(i))}
         IN  IF failing # {}
             THEN field(CHOOSE i \in failing : \A j \in failing : i <= j)
             ELSE Return([schema |-> clazz.name, clazz |-> clazz,
                          attributes |-> PublicMembers(clazz)
                                         \cup Range([i \in 1..Len(init) |-> init[i].name]),
                          fields |-> [i \in 1..Len(init) |-> <<init[i].name, field(i).val>>]])

\* A call class_schema(clazz, **kw).
CallClassSchema(clazz, kw) ==
    IF ~(DOMAIN kw \subseteq class_schema_parameters \ {"clazz"})
    THEN Exception("TypeError", "class_schema() got an unexpected keyword argument")
    ELSE class_schema(clazz)

\* desert.schema(cls, meta=meta) and desert.schema_class(cls, meta=meta)
desert_schema_class(cls, meta) == CallClassSchema(cls, "meta" :> meta)
desert_schema(cls, meta) == desert_schema_class(cls, meta)

\* desert._make.schema(cls, **kw) and desert._make.schema_class(cls, **kw)
make_schema_class(cls, kw) == CallClassSchema(cls, kw)
make_schema(cls, kw) == make_schema_class(cls, kw)

\* What a marshmallow field makes of the keyword arguments it was built with:
\* `default` is the dump default, `missing` the load default, and None is
\* accepted when allow_none says so or, unsaid, when the load default is None.
Settings(field) == IF "settings" \in DOMAIN field THEN field.settings ELSE EmptyMap
Required(field) == Truthy(Get(Settings(field), "required", PyBool(FALSE)))
LoadDefault(field) == Get(Settings(field), "missing", Missing)
DumpDefault(field) == Get(Settings(field), "default", Missing)
AllowNone(field) ==
    IF "allow_none" \in DOMAIN Settings(field)
    THEN Truthy(Settings(field)["allow_none"])
    ELSE LoadDefault(field).type = "NoneType"
\* A default that is callable is called.
DefaultValue(default) == IF default.type = "factory" THEN default.val ELSE default

RECURSIVE ResolvedSerialize(_, _)
RECURSIVE ResolvedDeserialize(_, _)

\* _serialize(value) of a field field_for_schema built. (The EnumField codec
\* is resolved but not run in this model.) A Union hands the value to its
\* candidates in order and keeps the first outcome that is not an error.
ResolvedSerialize(field, value) ==
    LET inner(i) == ResolvedSerialize(field.of[1], value.val[i])
        elem(i) == ResolvedSerialize(field.of[i], value.val[i])
        entry(k) == ResolvedSerialize(field.of[2], value.val[k])
        candidate(i) == ResolvedSerialize(field.of[i], value)
        accepting == {i \in 1..Len(field.of) : ~Raised(candidate(i))}
    IN  IF value.type = "NoneType"
        THEN Return(None)
        ELSE CASE field.codec \in {"Integer", "Raw"} -> Return(value)
               [] field.codec = "Dict" ->
                    IF value.type # "dict"
                    THEN Exception("AttributeError", "object has no attribute 'items'")
                    ELSE Return(PyDict([k \in DOMAIN value.val |-> entry(k).val]))
               [] field.codec = "Union" ->
                    IF accepting = {}
                    THEN Exception("ExceptionGroup", "All fields failed")
                    ELSE candidate(CHOOSE i \in accepting : \A j \in accepting : i <= j)
               [] field.codec = "String" -> Return(String_serialize(value))
               [] field.codec = "List" ->
                    IF value.type \notin {"list", "tuple"}
                    THEN Exception("TypeError", "object is not iterable")
                    ELSE Return(PyList([i \in 1..Len(value.val) |-> inner(i).val]))
               [] field.codec = "Tuple" ->
                    IF value.type \notin {"list", "tuple"}
                    THEN Exception("TypeError", "object is not iterable")
                    ELSE Return(PyTuple([i \in 1..Len(value.val) |-> elem(i).val]))
               [] field.codec = "Nested" -> Nested_serialize(field.of, value)

\* deserialize(value) of such a field, for a value that is present.
ResolvedDeserialize(field, value) ==
    LET Invalid(message) == Exception("ValidationError", message)
        inner(i) == ResolvedDeserialize(field.of[1], value.val[i])
        elem(i) == ResolvedDeserialize(field.of[i], value.val[i])
        key(k) == ResolvedDeserialize(field.of[1], PyStr(k))
        entry(k) == ResolvedDeserialize(field.of[2], value.val[k])
        candidate(i) == ResolvedDeserialize(field.of[i], value)
        accepting == {i \in 1..Len(field.of) : ~Raised(candidate(i))}
    IN  IF value.type = "NoneType"
        THEN IF AllowNone(field) THEN Return(None) ELSE Invalid("Field may not be null.")
        ELSE CASE field.codec = "Dict" ->
                    IF value.type # "dict"
                    THEN Invalid("Not a valid mapping type.")
                    ELSE IF \E k \in DOMAIN value.val : Raised(key(k)) \/ Raised(entry(k))
                    THEN Invalid("Invalid key or value.")
                    ELSE Return(PyDict([k \in DOMAIN value.val |-> entry(k).val]))
               [] field.codec = "Union" ->
                    IF accepting = {}
                    THEN Invalid("All fields failed")
                    ELSE candidate(CHOOSE i \in accepting : \A j \in accepting : i <= j)
               [] field.codec = "Integer" ->
                    IF value.type = "int" THEN Return(value) ELSE Invalid("Not a valid integer.")
               [] field.codec = "Raw" -> Return(value)
               [] field.codec = "String" -> String_deserialize(value)
               [] field.codec = "List" ->
                    IF value.type \notin {"list", "tuple"}
                    THEN Invalid("Not a valid list.")
                    ELSE IF \E i \in 1..Len(value.val) : Raised(inner(i))
                    THEN Invalid("Invalid element.")
                    ELSE Return(PyList([i \in 1..Len(value.val) |-> inner(i).val]))
               [] field.codec = "Tuple" ->
                    IF value.type \notin {"list", "tuple"}
                    THEN Invalid("Not a valid tuple.")
                    ELSE IF Len(value.val) # Len(field.of)
                    THEN Invalid("Length must be the number of tuple fields.")
                    ELSE IF \E i \in 1..Len(value.val) : Raised(elem(i))
                    THEN Invalid("Invalid element.")
                    ELSE Return(PyTuple([i \in 1..Len(value.val) |-> elem(i).val]))
               [] field.codec = "Nested" -> Nested_deserialize(field.of, value)

\* Field.serialize(attr, obj) and Field.deserialize(value) of any field of a
\* schema, the union field included.
AnyFieldSerialize(field, d, attr, obj) ==
    IF "settings" \in DOMAIN field
    THEN ResolvedSerialize(field, GetValue(obj, attr))
    ELSE IF "codec" \in DOMAIN field
    THEN FieldSerialize(field, attr, obj)
    ELSE TaggedUnionField_serialize_attr(field, d, attr, obj)

AnyFieldDeserialize(field, d, value) ==
    IF "settings" \in DOMAIN field
    THEN ResolvedDeserialize(field, value)
    ELSE IF "codec" \in DOMAIN field
    THEN FieldDeserialize(field, value)
    ELSE TaggedUnionField_deserialize(field, d, value).res

\* clazz(**kwargs): an attribute not given takes its default, a factory being
\* called; one without a default is a TypeError, as is an unknown keyword.
Instantiate(clazz, kwargs) ==
    LET n == Len(clazz.fields)
        names == {clazz.fields[i].name : i \in 1..n}
        at(k) == clazz.fields[CHOOSE i \in 1..n : clazz.fields[i].name = k]
        HasDefault(f) == f.default.type # "missing" \/ f.default_factory.type # "missing"
        default(f) == IF f.default_factory.type # "missing"
                      THEN DefaultValue(f.default_factory)
                      ELSE f.default
        taken == {k \in names : at(k).init}
    IN  IF ~(DOMAIN kwargs \subseteq taken)
        THEN Exception("TypeError", "__init__() got an unexpected keyword argument")
        ELSE IF \E k \in taken \ DOMAIN kwargs : ~HasDefault(at(k))
        THEN Exception("TypeError", "__init__() missing a required argument")
        ELSE Return(Obj(clazz.name,
                        [k \in {x \in names : x \in DOMAIN kwargs \/ HasDefault(at(x))} |->
                            IF k \in DOMAIN kwargs THEN kwargs[k] ELSE default(at(k))]))

\* Schema.dump(obj): each field serialized from its attribute, a missing
\* attribute giving the dump default or nothing; an exception of a field
\* leaves dump.
Schema_dump(schema, d, obj) ==
    LET n == Len(schema.fields)
        name(i) == schema.fields[i][1]
        field(i) == schema.fields[i][2]
        absent(i) == GetValue(obj, name(i)) = Missing
        out(i) == IF absent(i)
                  THEN Return(DefaultValue(DumpDefault(field(i))))
                  ELSE AnyFieldSerialize(field(i), d, name(i), obj)
        failed == {i \in 1..n : Raised(out(i))}
        kept == {i \in 1..n : ~Raised(out(i)) /\ out(i).val.type # "missing"}
    IN  IF failed # {}
        THEN out(CHOOSE i \in failed : \A j \in failed : i <= j)
        ELSE Return(PyDict([k \in {name(i) : i \in kept} |->
                        out(CHOOSE i \in kept : name(i) = k).val]))

\* Schema.load(data): a key no field has is refused; a field whose key is
\* absent is an error when required, else takes its load default or is left
\* out; ValidationErrors of the fields are collected into one, any other
\* exception leaves load; the post_load hook of _base_schema then calls
\* clazz(**data).
Schema_load(schema, d, data) ==
    LET n == Len(schema.fields)
        name(i) == schema.fields[i][1]
        field(i) == schema.fields[i][2]
        given == {i \in 1..n : name(i) \in DOMAIN data.val}
        out(i) == IF i \in given
                  THEN AnyFieldDeserialize(field(i), d, data.val[name(i)])
                  ELSE IF Required(field(i))
                  THEN Exception("ValidationError", "Missing data for required field.")
                  ELSE Return(DefaultValue(LoadDefault(field(i))))
        escaped == {i \in 1..n : Raised(out(i)) /\ out(i).exc # "ValidationError"}
        kept == {i \in 1..n : ~Raised(out(i)) /\ out(i).val.type # "missing"}
    IN  IF data.type # "dict"
        THEN Exception("ValidationError", "Invalid input type.")
        ELSE IF escaped # {}
        THEN out(CHOOSE i \in escaped : \A j \in escaped : i <= j)
        ELSE IF \/ ~(DOMAIN data.val \subseteq {name(i) : i \in 1..n})
                \/ \E i \in 1..n : Raised(out(i))
        THEN Exception("ValidationError", "Invalid, unknown or missing field.")
        ELSE Instantiate(schema.clazz,
                       [k \in {name(i) : i \in kept} |->
                            out(CHOOSE i \in kept : name(i) = k).val])

----------------------------------------------------------------------------
(* The union-of-two-classes example: a registry of Cat and Dog, each with  *)
(* a Nested field of its schema, and a class CatsAndDogs whose attribute   *)
(* `union` carries a union field built from the registry.                  *)

\* meta={"ordered": True}
OrderedMeta == PyDict("ordered" :> PyInt(1))

\* The ways to ask for a schema: the function and the meta handed to it.
SchemaCalls ==
    {<<"desert.schema", NoKeywords>>, <<"desert.schema", "meta" :> OrderedMeta>>,
     <<"desert._make.schema", NoKeywords>>, <<"desert._make.schema", "meta" :> OrderedMeta>>}

CallSchema(how, cls) ==
    LET meta == IF "meta" \in DOMAIN how[2] THEN how[2]["meta"] ELSE PyDict(EmptyMap)
    IN  CASE how[1] = "desert.schema" -> desert_schema(cls, meta)
          [] how[1] = "desert.schema_class" -> desert_schema_class(cls, meta)
          [] how[1] = "desert._make.schema" -> make_schema(cls, how[2])
          [] how[1] = "desert._make.schema_class" -> make_schema_class(cls, how[2])
          [] how[1] = "desert._make.class_schema" -> CallClassSchema(cls, how[2])

\* The ways to attach a marshmallow field to an attribute.
Attachments == {"desert.field", "desert.ib", "metadata"}

Attach(how, marshmallow_field) ==
    CASE how = "desert.field" -> desert_field(marshmallow_field, EmptyMap)
      [] how = "desert.ib" -> desert_ib(marshmallow_field, EmptyMap)
      [] how = "metadata" -> Return("desert" :> ("marshmallow_field" :> marshmallow_field))

Variants == {"Cat", "Dog"}
Bubbles_the_dog == Obj("Dog", [name |-> PyStr("Bubbles"), color |-> PyStr("black spots on white")])
VariantValues == {Max_the_cat, Bubbles_the_dog}

CatsAndDogs(metadata) ==
    Class("CatsAndDogs", TRUE,
          <<Attribute("union", Generic("Union", <<VariantClass("Cat"), VariantClass("Dog")>>), metadata)>>)

\* registry.register(hint=cls, tag=tag, field=Nested(<schema of cls>))
RegisterVariant(cls, tag, how) ==
    /\ Populating
    /\ \E schema \in {CallSchema(how, VariantClass(cls))} :
       \E field \in {IF Raised(schema) THEN None ELSE Nested(schema.val.schema)} :
       \E r \in {register(by_tag, ClassHint(cls), tag, field)} :
          /\ call' = [op |-> "register", hint |-> ClassHint(cls), tag |-> tag, field |-> field,
                      before |-> by_tag, schema |-> how]
          /\ result' = IF Raised(schema) THEN schema ELSE r.res
          /\ by_tag' = IF Raised(schema) THEN by_tag ELSE r.by_tag
          /\ item' = None
          /\ first' = IF Raised(schema) \/ tag \in DOMAIN first
                      THEN first
                      ELSE first @@ (tag :> HintTagField(ClassHint(cls), tag, field))

\* schema = <schema of CatsAndDogs>; schema.load(schema.dump(CatsAndDogs(union=value)))
DumpLoad(field, attach, how, value) ==
    /\ Populating
    /\ \E metadata \in {Attach(attach, field)} :
       \E schema \in {IF Raised(metadata) THEN metadata
                      ELSE CallSchema(how, CatsAndDogs(metadata.val))} :
       \E dumped \in {IF Raised(schema) THEN schema
                      ELSE Schema_dump(schema.val, by_tag,
                                       Obj("CatsAndDogs", [union |-> value]))} :
       \E loaded \in {IF Raised(dumped) THEN dumped
                      ELSE Schema_load(schema.val, by_tag, dumped.val)} :
          /\ call' = [op |-> "dump_load", field |-> field, attach |-> attach,
                      schema |-> how, value |-> value]
          /\ result' = loaded
          /\ item' = IF Raised(dumped) THEN None ELSE dumped.val
          /\ UNCHANGED <<by_tag, first>>

NextExample ==
    \/ \E cls \in Variants, tag \in Tags, how \in SchemaCalls : RegisterVariant(cls, tag, how)
    \/ \E field \in UnionFields, attach \in Attachments, how \in SchemaCalls, value \in VariantValues :
          DumpLoad(field, attach, how, value)

SpecExample == Init /\ [][NextExample]_vars

----------------------------------------------------------------------------
(* Schemas of declared classes: a class A with an attribute x, and at most *)
(* one more attribute y, is declared; then its schema is built, or built   *)
(* and used to load a wire mapping, or one field is resolved on its own.   *)

IntType == Native("int")
StrType == Native("str")

SchemaTypes ==
    {IntType, StrType, Optional(IntType),
     Generic("list", <<IntType>>), Generic("Sequence", <<IntType>>), Generic("MutableSequence", <<IntType>>),
     Generic("dict", <<StrType, IntType>>), Generic("Mapping", <<StrType, IntType>>),
     Generic("MutableMapping", <<StrType, IntType>>),
     Generic("tuple", <<IntType, Ellipsis>>), Generic("tuple", <<IntType, StrType>>),
     Class("Plain", FALSE, <<>>), VariantClass("Cat"),
     Class("list", FALSE, <<>>), Class("dict", FALSE, <<>>),
     Generic("UnknownGeneric", <<IntType>>),
     NewType("MyInt", IntType),
     Generic("list", <<ForwardRef("A")>>), StringAnnotation("A")}

\* A declared default: <<default, default_factory>>.
NoDefault == <<Missing, Missing>>
DeclaredDefaults ==
    {NoDefault, <<PyInt(1), Missing>>, <<Missing, Factory(PyList(<<>>), FALSE)>>,
     <<Missing, Factory(PyInt(2), TRUE)>>}

\* The metadata a field is declared with.
FieldMetadatas ==
    {EmptyMap,
     "foo" :> PyInt(1),
     "desert" :> ("required" :> PyBool(FALSE)),
     "desert" :> ("required" :> PyBool(TRUE)),
     "desert" :> ("marshmallow_field" :> ListString),
     "marshmallow_field" :> ListString}

\* The attributes declared after x.
SecondAttributes(x_default) ==
    {<<>>, <<FieldDescriptor("y", StrType, PyStr("can't init this"), Missing, EmptyMap, FALSE)>>}
    \cup IF x_default = NoDefault THEN {<<Attribute("y", IntType, EmptyMap)>>} ELSE {}

\* The method names a class body may define.
MethodNames == {"dataclass_method", "_helper"}

DeclaredClasses ==
    UNION {{Class("A", decorated,
                  <<FieldDescriptor("x", typ, default[1], default[2], metadata, TRUE)>>
                  \o second) :
                decorated \in BOOLEAN, typ \in SchemaTypes, metadata \in FieldMetadatas,
                second \in SecondAttributes(default)} :
           default \in DeclaredDefaults}
    \cup {WithMethods(Class("A", TRUE, fields), methods) :
              fields \in {<<Attribute("x", IntType, EmptyMap)>>,
                          <<FieldDescriptor("x", IntType, PyInt(1), Missing, EmptyMap, TRUE)>>},
              methods \in SUBSET MethodNames \ {{}}}

SchemaBuilders ==
    {<<"desert._make.class_schema", NoKeywords>>, <<"desert._make.schema_class", NoKeywords>>,
     <<"desert.schema", NoKeywords>>, <<"desert.schema_class", NoKeywords>>}

WireValuesOfX ==
    {PyInt(5), None, PyStr("a"), PyList(<<>>), PyList(<<PyInt(1), PyInt(2), PyInt(3)>>),
     PyTuple(<<PyInt(1), PyInt(2), PyInt(3)>>)}
SchemaWires ==
    {PyDict(f) : f \in UNION {[S -> WireValuesOfX] : S \in SUBSET {"x"}}}
    \cup {PyDict(f @@ ("y" :> PyInt(2))) : f \in UNION {[S -> WireValuesOfX] : S \in SUBSET {"x"}}}

\* Where the metadata handed to field_for_schema comes from: a literal
\* mapping, or one of desert's helpers applied to a field.
MetadataSources ==
    {<<"literal", m>> : m \in FieldMetadatas}
    \cup {<<how, ListString>> : how \in {"desert.metadata", "desert.field", "desert.ib"}}

MetadataFrom(source) ==
    CASE source[1] = "literal" -> Return(source[2])
      [] source[1] = "desert.metadata" -> desert_metadata(source[2])
      [] source[1] = "desert.field" -> desert_field(source[2], EmptyMap)
      [] source[1] = "desert.ib" -> desert_ib(source[2], EmptyMap)

BuildSchema(how, clazz) ==
    /\ Populating
    /\ call' = [op |-> "class_schema", how |-> how, clazz |-> clazz]
    /\ result' = CallSchema(how, clazz)
    /\ item' = None
    /\ UNCHANGED <<by_tag, first>>

\* class_schema(clazz)().load(data)
Load(clazz, data) ==
    LET schema == class_schema(clazz)
    IN  /\ Populating
        /\ call' = [op |-> "load", clazz |-> clazz, value |-> data]
        /\ result' = IF Raised(schema) THEN schema ELSE Schema_load(schema.val, by_tag, data)
        /\ item' = None
        /\ UNCHANGED <<by_tag, first>>

\* schema.dump(schema.load(data))
LoadDump(clazz, data) ==
    LET schema == class_schema(clazz)
        loaded == Schema_load(schema.val, by_tag, data)
    IN  /\ Populating
        /\ call' = [op |-> "load_dump", clazz |-> clazz, value |-> data]
        /\ result' = IF Raised(schema) THEN schema
                     ELSE IF Raised(loaded) THEN loaded
                     ELSE Schema_dump(schema.val, by_tag, loaded.val)
        /\ item' = None
        /\ UNCHANGED <<by_tag, first>>

\* The caller's metadata after field_for_schema has worked on the dict under
\* its "desert" key: dict(metadata) copies the outer mapping alone.
MetadataAfter(metadata, inner) ==
    IF "desert" \in DOMAIN metadata THEN MapPut(metadata, "desert", inner) ELSE metadata

\* field_for_schema(typ, default, metadata)
ResolveField(typ, default, source) ==
    /\ Populating
    /\ \E metadata \in {MetadataFrom(source)} :
       \E resolved \in {IF Raised(metadata)
                        THEN [res |-> metadata, metadata |-> EmptyMap]
                        ELSE field_for_schema(typ, default, metadata.val)} :
          /\ call' = [op |-> "field_for_schema", typ |-> typ, default |-> default,
                      source |-> source]
          /\ result' = resolved.res
          /\ item' = IF Raised(metadata)
                     THEN None
                     ELSE PyDict(MetadataAfter(metadata.val, resolved.metadata))
          /\ UNCHANGED <<by_tag, first>>

\* One call is made, on the program as constructed.
NextSchema ==
    \/ /\ call.op = "init"
       /\ \E how \in SchemaBuilders, clazz \in DeclaredClasses : BuildSchema(how, clazz)
    \/ /\ call.op = "init"
       /\ \E clazz \in DeclaredClasses, data \in SchemaWires : Load(clazz, data)
    \/ /\ call.op = "init"
       /\ \E clazz \in DeclaredClasses, data \in SchemaWires : LoadDump(clazz, data)
    \/ /\ call.op = "init"
       /\ \E typ \in SchemaTypes, default \in {d[1] : d \in DeclaredDefaults} \cup
                                               {d[2] : d \in DeclaredDefaults},
             source \in MetadataSources : ResolveField(typ, default, source)

SpecSchema == Init /\ [][NextSchema]_vars

----------------------------------------------------------------------------
(* The claims about the registry.                                          *)

SameResult(r, s) == r.exc = s.exc /\ r.val = s.val

\* The entries of by_tag, in registration order.
Entries == DictValues(by_tag)

\* C1: a register call naming a tag that is already registered raises the
\* tag-already-registered error and leaves by_tag as it was.
C1_ReregistrationRaisesTagAlreadyRegistered ==
    (call.op = "register" /\ DictContains(call.before, call.tag))
        => (result.exc = "TagAlreadyRegistered" /\ by_tag = call.before)

\* C2: after any register calls, accepted or rejected, no tag has two entries,
\* the entry under a tag carries that tag, from_tag of a tag some register call
\* named gives the triple of the first such call, and from_tag of any other tag
\* raises KeyError.
C2_FromTagGivesFirstRegistration ==
    /\ \A i, j \in 1..Len(by_tag) : by_tag[i][1] = by_tag[j][1] => i = j
    /\ \A i \in 1..Len(by_tag) : by_tag[i][2].tag = by_tag[i][1]
    /\ \A t \in Tags :
          IF t \in DOMAIN first
          THEN SameResult(from_tag(by_tag, PyStr(t)), Return(first[t]))
          ELSE from_tag(by_tag, PyStr(t)).exc = "KeyError"
    /\ call.op = "from_tag" =>
          IF call.tag \in DOMAIN first
          THEN SameResult(result, Return(first[call.tag]))
          ELSE result.exc = "KeyError"

\* A rejected re-registration with other arguments than the first, beside
\* another entry.
C2_Witness ==
    /\ call.op = "register"
    /\ Raised(result)
    /\ first[call.tag] # HintTagField(call.hint, call.tag, call.field)
    /\ Len(by_tag) = 2

\* The two checks an entry's hint is put to.
PassesStructural(value, hint) == CheckTypePasses(value, hint)
PassesNominal(value, hint) == IsInstance(value, hint) = "True"
OriginIsType(value, hint) == GetOrigin(hint) = value.type

\* The score as C3 words it: the three terms added up.
ClaimedScore(entry, value) ==
    (IF PassesStructural(value, entry.hint) THEN 2 ELSE 0)
    + (IF PassesNominal(value, entry.hint) THEN 3 ELSE 0)
    + (IF OriginIsType(value, entry.hint) THEN 1 ELSE 0)

\* The score with the origin term counted only for an entry that passed one of
\* the two checks.
MatchScore(entry, value) ==
    LET matched == (IF PassesStructural(value, entry.hint) THEN 2 ELSE 0)
                   + (IF PassesNominal(value, entry.hint) THEN 3 ELSE 0)
    IN  matched + (IF matched > 0 /\ OriginIsType(value, entry.hint) THEN 1 ELSE 0)

\* The entries that attain the highest score under scoring F, when positive.
Winners(F(_, _), value) ==
    {i \in 1..Len(by_tag) :
        /\ F(Entries[i], value) > 0
        /\ \A j \in 1..Len(by_tag) : F(Entries[j], value) <= F(Entries[i], value)}

\* C3 as worded: with the score 2 + 3 + 1, a single entry with the highest
\* positive score is what from_object returns.
C3_UniqueHighestClaimedScoreReturned ==
    call.op = "from_object" =>
        \A i \in 1..Len(by_tag) :
            Winners(ClaimedScore, call.value) = {i} => SameResult(result, Return(Entries[i]))

\* C3 amended: with the origin point given only to an entry that passed a
\* check, a single entry with the highest positive score is what from_object
\* returns; a list of strings, on a registry of a List[str] and a Sequence[str]
\* entry, resolves to the List[str] entry.
C3_UniqueHighestMatchScoreReturned ==
    call.op = "from_object" =>
        /\ \A i \in 1..Len(by_tag) :
              Winners(MatchScore, call.value) = {i} => SameResult(result, Return(Entries[i]))
        /\ \A i, j \in 1..Len(by_tag) :
              ( /\ Len(by_tag) = 2
                /\ Entries[i].hint = List_str
                /\ Entries[j].hint = Sequence_str
                /\ call.value.type = "list"
                /\ call.value.val # <<>>
                /\ \A n \in 1..Len(call.value.val) : call.value.val[n].type = "str" )
              => SameResult(result, Return(Entries[i]))

\* A list of strings resolved to the List[str] entry with a Sequence[str]
\* entry registered beside it.
C3_Witness ==
    /\ call.op = "from_object"
    /\ call.value = PyList(<<PyStr("a"), PyStr("a")>>)
    /\ Len(by_tag) = 2
    /\ \E i, j \in 1..Len(by_tag) :
          /\ Entries[i].hint = List_str
          /\ Entries[j].hint = Sequence_str
          /\ SameResult(result, Return(Entries[i]))

\* C4: when two or more entries share the highest positive score, from_object
\* raises MultipleMatchingHintsFound with the hints of exactly those entries
\* and the value, and returns no entry.
C4_TieRaisesMultipleMatchingHints ==
    call.op = "from_object" =>
        LET tied == Winners(MatchScore, call.value)
            IsTied(pair) == \E i \in tied : by_tag[i] = pair
            tied_entries == SelectSeq(by_tag, IsTied)
        IN  Cardinality(tied) >= 2 =>
              /\ result.exc = "MultipleMatchingHintsFound"
              /\ result.val.hints = [n \in 1..Len(tied_entries) |-> tied_entries[n][2].hint]
              /\ result.val.value = call.value

\* The empty list with a Sequence and a Collection entry tied and a third
\* entry that scores lower.
C4_Witness ==
    /\ call.op = "from_object"
    /\ call.value = PyList(<<>>)
    /\ Len(by_tag) = 3
    /\ result.exc = "MultipleMatchingHintsFound"
    /\ Range(result.val.hints) = {SequenceHint, CollectionHint}

\* C5: on a registry with an entry, a value that passes neither check for any
\* registered hint makes from_object raise NoMatchingHintFound with the hints
\* of all entries, also when the value's type is the origin of one of them.
C5_NoMatchRaisesNoMatchingHint ==
    ( /\ call.op = "from_object"
      /\ Len(by_tag) >= 1
      /\ \A i \in 1..Len(by_tag) :
            /\ ~PassesStructural(call.value, Entries[i].hint)
            /\ ~PassesNominal(call.value, Entries[i].hint) )
    => /\ result.exc = "NoMatchingHintFound"
       /\ result.val.hints = [i \in 1..Len(by_tag) |-> Entries[i].hint]
       /\ result.val.value = call.value

\* A list of an int, no match, with List[str] (origin list) among two entries.
C5_Witness ==
    /\ call.op = "from_object"
    /\ call.value = PyList(<<PyInt(1)>>)
    /\ Len(by_tag) = 2
    /\ \E i \in 1..Len(by_tag) : OriginIsType(call.value, Entries[i].hint)
    /\ result.exc = "NoMatchingHintFound"

----------------------------------------------------------------------------
(* The claims about the union field.                                       *)

TypeKeyOf(field) == field.from_tagged.keywords["type_key"]
ValueKeyOf(field) == field.from_tagged.keywords["value_key"]
Convention(field) ==
    CASE field.from_tagged.func = "from_externally_tagged" -> "external"
      [] field.from_tagged.func = "from_internally_tagged" -> "internal"
      [] field.from_tagged.func = "from_adjacently_tagged" -> "adjacent"

\* A wire item laid out as the field's convention has it.
WellFormed(field, w) ==
    /\ w.type = "dict"
    /\ CASE Convention(field) = "external" -> Cardinality(DOMAIN w.val) = 1
          [] Convention(field) = "internal" -> TypeKeyOf(field) \in DOMAIN w.val
          [] Convention(field) = "adjacent" ->
                /\ TypeKeyOf(field) # ValueKeyOf(field)
                /\ DOMAIN w.val = {TypeKeyOf(field), ValueKeyOf(field)}

\* The tag and the payload a well-formed wire item holds, read off its layout.
WireTag(field, w) ==
    IF Convention(field) = "external"
    THEN PyStr(CHOOSE k \in DOMAIN w.val : TRUE)
    ELSE w.val[TypeKeyOf(field)]

WirePayload(field, w) ==
    CASE Convention(field) = "external" -> w.val[CHOOSE k \in DOMAIN w.val : TRUE]
      [] Convention(field) = "internal" ->
            PyDict([k \in DOMAIN w.val \ {TypeKeyOf(field)} |-> w.val[k]])
      [] Convention(field) = "adjacent" -> w.val[ValueKeyOf(field)]

IsRegistered(tag) == tag.type = "str" /\ \E i \in 1..Len(by_tag) : by_tag[i][1] = tag.val
EntryOf(tag) == by_tag[CHOOSE i \in 1..Len(by_tag) : by_tag[i][1] = tag.val][2]

\* C6: deserialize returns entry.field.deserialize(inner) for (tag, inner) =
\* from_tagged(w) and entry = from_tag(tag); the payload of a well-formed item
\* is decoded by the codec registered under its tag, and an unregistered tag
\* raises KeyError.
C6_DeserializeUsesCodecOfWireTag ==
    call.op = "deserialize" =>
        LET unwrapped == CallFromTagged(call.field.from_tagged, call.value).res
            entry == from_tag(by_tag, unwrapped.val.tag)
        IN  /\ (~Raised(unwrapped) /\ ~Raised(entry)) =>
                  SameResult(result, FieldDeserialize(entry.val.field, unwrapped.val.value))
            /\ WellFormed(call.field, call.value) =>
                  IF IsRegistered(WireTag(call.field, call.value))
                  THEN SameResult(result,
                          FieldDeserialize(EntryOf(WireTag(call.field, call.value)).field,
                                           WirePayload(call.field, call.value)))
                  ELSE result.exc = "KeyError"

\* A Cat decoded off the wire by an entry registered after an entry with
\* another codec.
C6_Witness ==
    /\ call.op = "deserialize"
    /\ SameResult(result, Return(Max_the_cat))
    /\ Len(by_tag) >= 2
    /\ by_tag[1][2].field = ListString

\* C7: serialize returns to_tagged(entry.tag, entry.field.serialize(a, o)) for
\* entry = from_object(value of a); the tag on the wire is the tag of the entry
\* whose codec made the payload; a from_object failure is what the call raises.
C7_SerializeTagsWithEntryOfValue ==
    call.op = "serialize" =>
        LET entry == from_object(by_tag, call.obj.val[call.attr])
            payload == FieldSerialize(entry.val.field, call.attr, call.obj)
        IN  /\ Raised(entry) => SameResult(result, entry)
            /\ (~Raised(entry) /\ ~Raised(payload)) =>
                  SameResult(result,
                      CallToTagged(call.field.to_tagged, PyStr(entry.val.tag), payload.val))
            /\ (~Raised(result) /\ WellFormed(call.field, result.val)) =>
                  /\ IsRegistered(WireTag(call.field, result.val))
                  /\ EntryOf(WireTag(call.field, result.val)) = entry.val
                  /\ SameResult(Return(WirePayload(call.field, result.val)),
                         FieldSerialize(EntryOf(WireTag(call.field, result.val)).field,
                                        call.attr, call.obj))

\* A wire item made for a value whose entry is not the first registered.
C7_Witness ==
    /\ call.op = "serialize"
    /\ ~Raised(result)
    /\ Len(by_tag) >= 2
    /\ SameResult(from_object(by_tag, call.obj.val[call.attr]), Return(by_tag[2][2]))
    /\ by_tag[1][2].field # by_tag[2][2].field

----------------------------------------------------------------------------
(* The claims about the conventions.                                       *)

\* The reserved keys a call is to use: the ones the caller gave, else "#type"
\* and "#value".
GivenTypeKey == IF "type_key" \in DOMAIN call.kw THEN call.kw["type_key"] ELSE "#type"
GivenValueKey == IF "value_key" \in DOMAIN call.kw THEN call.kw["value_key"] ELSE "#value"

\* C8: wrapping gives {tag: payload} externally tagged, the payload's entries
\* plus type_key -> tag internally tagged (and no wire item when the payload
\* cannot take that entry), {type_key: tag, value_key: payload} adjacently
\* tagged, with the keys "#type" and "#value" when the caller gives none.
C8_WrappingGivesTheWireForms ==
    call.op = "to_tagged" =>
        LET tag == PyStr(call.tag)
            payload == call.value
            w == result.val.val
        IN  CASE call.convention = "external" ->
                    /\ ~Raised(result)
                    /\ result.val.type = "dict"
                    /\ DOMAIN w = {call.tag}
                    /\ w[call.tag] = payload
              [] call.convention = "internal" ->
                    IF payload.type = "dict" /\ GivenTypeKey \notin DOMAIN payload.val
                    THEN /\ ~Raised(result)
                         /\ result.val.type = "dict"
                         /\ DOMAIN w = DOMAIN payload.val \cup {GivenTypeKey}
                         /\ w[GivenTypeKey] = tag
                         /\ \A k \in DOMAIN payload.val : w[k] = payload.val[k]
                    ELSE Raised(result)
              [] call.convention = "adjacent" ->
                    /\ ~Raised(result)
                    /\ result.val.type = "dict"
                    /\ DOMAIN w = {GivenTypeKey, GivenValueKey}
                    /\ w[GivenValueKey] = payload
                    /\ GivenTypeKey # GivenValueKey => w[GivenTypeKey] = tag

\* The adjacently tagged form of the cat under the default keys.
C8_Witness ==
    /\ call.op = "to_tagged"
    /\ call.convention = "adjacent"
    /\ call.kw = NoKeywords
    /\ SameResult(result,
          Return(PyDict("#type" :> PyStr("cat")
                        @@ "#value" :> PyDict([name |-> PyStr("Max"), color |-> PyStr("tuxedo")]))))

\* C10: from_tagged(to_tagged(tag, v)) = (tag, v) externally tagged for every v,
\* internally tagged for every mapping v without the type key, adjacently
\* tagged when the two keys differ; and to_tagged of from_tagged(w) is a mapping
\* equal to w, as w was handed over, for every well-formed w.
C10_WrapAndUnwrapAreInverse ==
    /\ call.op = "wrap_unwrap" =>
          LET covered ==
                CASE call.convention = "external" -> TRUE
                  [] call.convention = "internal" ->
                        call.value.type = "dict" /\ GivenTypeKey \notin DOMAIN call.value.val
                  [] call.convention = "adjacent" -> GivenTypeKey # GivenValueKey
          IN  covered => SameResult(result, Return(TaggedValue(PyStr(call.tag), call.value)))
    /\ call.op = "unwrap_wrap" =>
          (WellFormed(call.field, call.value) => SameResult(result, Return(call.value)))

\* An internally tagged round trip of the cat under a key the caller chose.
C10_Witness ==
    /\ call.op = "wrap_unwrap"
    /\ call.convention = "internal"
    /\ "type_key" \in DOMAIN call.kw
    /\ call.value = PyDict([name |-> PyStr("Max"), color |-> PyStr("tuxedo")])
    /\ ~Raised(result)

----------------------------------------------------------------------------
(* The claim about the example.                                            *)

\* C9: with a registry of distinct classes holding the value's class, dumping
\* a CatsAndDogs holding the value gives a wire form carrying that class's tag
\* and loading it gives back an equal CatsAndDogs.
C9_EveryVariantRoundTrips ==
    (/\ call.op = "dump_load"
     /\ \A i, j \in 1..Len(by_tag) : by_tag[i][2].hint = by_tag[j][2].hint => i = j
     /\ \E i \in 1..Len(by_tag) : by_tag[i][2].hint = ClassHint(call.value.type))
    => /\ SameResult(result, Return(Obj("CatsAndDogs", [union |-> call.value])))
       /\ item.type = "dict"
       /\ "union" \in DOMAIN item.val
       /\ WellFormed(call.field, item.val["union"])
       /\ \E i \in 1..Len(by_tag) :
             /\ by_tag[i][2].hint = ClassHint(call.value.type)
             /\ WireTag(call.field, item.val["union"]) = PyStr(by_tag[i][2].tag)

----------------------------------------------------------------------------
(* The claims about the conventions' failures.                             *)

\* C11: internally tagged wrapping of a mapping payload that already has the
\* type key, given or defaulted, raises TypeKeyCollision whatever the payload
\* holds under the key, so no wire item is produced.
C11_TypeKeyCollisionIsRaised ==
    (/\ call.op = "to_tagged"
     /\ call.convention = "internal"
     /\ call.value.type = "dict"
     /\ GivenTypeKey \in DOMAIN call.value.val)
    => result.exc = "TypeKeyCollision"

\* A collision under a key the caller chose, on a payload holding an integer.
C11_Witness ==
    /\ call.op = "to_tagged"
    /\ call.convention = "internal"
    /\ "type_key" \in DOMAIN call.kw
    /\ call.value = PyDict("type" :> PyInt(1))
    /\ GivenTypeKey = "type"
    /\ result.exc = "TypeKeyCollision"

\* C12: externally tagged unwrapping raises for a mapping of no entry or of two
\* or more; adjacently tagged unwrapping raises for a mapping lacking one of
\* the two reserved keys or holding a key beyond them.
C12_MalformedWiresAreRefused ==
    call.op = "from_tagged" =>
        LET keys == DOMAIN call.value.val
        IN  /\ (call.convention = "external" /\ Cardinality(keys) # 1) => Raised(result)
            /\ (/\ call.convention = "adjacent"
                /\ \/ GivenTypeKey \notin keys
                   \/ GivenValueKey \notin keys
                   \/ keys \ {GivenTypeKey, GivenValueKey} # {})
               => Raised(result)

\* An adjacently tagged mapping with both reserved keys and one more.
C12_Witness ==
    /\ call.op = "from_tagged"
    /\ call.convention = "adjacent"
    /\ GivenTypeKey # GivenValueKey
    /\ {GivenTypeKey, GivenValueKey} \subseteq DOMAIN call.value.val
    /\ Cardinality(DOMAIN call.value.val) = 3
    /\ result.exc = "Exception"

----------------------------------------------------------------------------
(* The claims about schemas.                                               *)

\* The attribute x of the class of the call, and the names of the attributes
\* of a class that take part in its constructor, in declaration order.
AttributeX == call.clazz.fields[1]
InitAttributes(clazz) == SelectSeq(clazz.fields, LAMBDA f : f.init)
InitNames(clazz) == [i \in 1..Len(InitAttributes(clazz)) |-> InitAttributes(clazz)[i].name]
NonInitAttributes(clazz) == SelectSeq(clazz.fields, LAMBDA f : ~f.init)
\* The metadata names a pre-built field where field_for_schema looks for one.
NamesField(metadata) ==
    "desert" \in DOMAIN metadata /\ "marshmallow_field" \in DOMAIN metadata["desert"]

\* C13: the schema class_schema returns has the constructor-participating
\* attributes' names as its fields' names, in order, and so none of an
\* init=False attribute; a load that succeeds returns an instance of the class
\* built from one keyword per field, an init=False attribute keeping its
\* default, and wire data naming an init=False attribute is refused.
C13_SchemaFieldsAreTheInitAttributes ==
    /\ (/\ call.op = "class_schema"
        /\ call.how[1] = "desert._make.class_schema"
        /\ ~Raised(result))
       => /\ [i \in 1..Len(result.val.fields) |-> result.val.fields[i][1]]
                = InitNames(call.clazz)
          /\ \A i \in 1..Len(NonInitAttributes(call.clazz)) :
                \A j \in 1..Len(result.val.fields) :
                    result.val.fields[j][1] # NonInitAttributes(call.clazz)[i].name
    /\ (call.op = "load" /\ ~Raised(class_schema(call.clazz)))
       => /\ ~Raised(result) =>
                /\ result.val.type = call.clazz.name
                /\ DOMAIN call.value.val \subseteq Range(InitNames(call.clazz))
                /\ \A k \in DOMAIN call.value.val : k \in DOMAIN result.val.val
                /\ \A i \in 1..Len(NonInitAttributes(call.clazz)) :
                      LET a == NonInitAttributes(call.clazz)[i]
                      IN  a.name \in DOMAIN result.val.val /\ result.val.val[a.name] = a.default
          /\ (\E i \in 1..Len(NonInitAttributes(call.clazz)) :
                  NonInitAttributes(call.clazz)[i].name \in DOMAIN call.value.val)
             => result.exc = "ValidationError"

\* A class with x: int and an init=False y loaded from {"x": 5}.
C13_Witness ==
    /\ call.op = "load"
    /\ AttributeX.type = IntType
    /\ Len(NonInitAttributes(call.clazz)) = 1
    /\ call.value = PyDict("x" :> PyInt(5))
    /\ SameResult(result, Return(Obj("A", [x |-> PyInt(5), y |-> PyStr("can't init this")])))

\* C14: building the schema of a class that neither dataclasses nor attrs
\* decorated raises NotAnAttrsClassOrDataclass, through class_schema, schema
\* and schema_class alike.
C14_UndecoratedClassIsRefused ==
    (call.op = "class_schema" /\ ~call.clazz.decorated)
    => result.exc = "NotAnAttrsClassOrDataclass"

\* C15: metadata carrying a pre-built field, as desert.metadata, desert.field
\* and desert.ib produce it or under the key field_for_schema reads, resolves
\* to that very field for every declared type and default.
C15_PrebuiltFieldIsReturned ==
    (/\ call.op = "field_for_schema"
     /\ \/ call.source[1] \in {"desert.metadata", "desert.field", "desert.ib"}
        \/ call.source[1] = "literal" /\ NamesField(call.source[2]))
    => SameResult(result, Return(ListString))

\* C16: Optional[int] without a default and without a pre-built field resolves
\* to the Integer field with dump and load default None, not required and
\* accepting None; a class with such an x loads wire data without "x" or with
\* "x": None to an instance with x = None.
C16_OptionalResolvesToInnerWithNoneDefault ==
    /\ (/\ call.op = "field_for_schema"
        /\ call.typ = Optional(IntType)
        /\ call.default.type = "missing"
        /\ call.source[1] = "literal"
        /\ ~NamesField(call.source[2]))
       => /\ ~Raised(result)
          /\ result.val.codec = "Integer"
          /\ DumpDefault(result.val) = None
          /\ LoadDefault(result.val) = None
          /\ ~Required(result.val)
          /\ AllowNone(result.val)
    /\ (/\ call.op = "load"
        /\ call.clazz.decorated
        /\ AttributeX.type = Optional(IntType)
        /\ AttributeX.default.type = "missing"
        /\ AttributeX.default_factory.type = "missing"
        /\ ~NamesField(AttributeX.metadata)
        /\ DOMAIN call.value.val \cap Range(InitNames(call.clazz)) = Range(InitNames(call.clazz)) \ {"x"}
        /\ DOMAIN call.value.val \subseteq Range(InitNames(call.clazz)))
       => /\ ~Raised(result)
          /\ result.val.val["x"] = None
    /\ (/\ call.op = "load"
        /\ call.clazz.decorated
        /\ AttributeX.type = Optional(IntType)
        /\ AttributeX.default.type = "missing"
        /\ AttributeX.default_factory.type = "missing"
        /\ ~NamesField(AttributeX.metadata)
        /\ DOMAIN call.value.val = Range(InitNames(call.clazz))
        /\ call.value.val["x"] = None)
       => /\ ~Raised(result)
          /\ result.val.val["x"] = None

\* The class with only x: Optional[int], loaded from {}.
C16_Witness ==
    /\ call.op = "load"
    /\ AttributeX.type = Optional(IntType)
    /\ AttributeX.metadata = EmptyMap
    /\ call.value = PyDict(EmptyMap)
    /\ SameResult(result, Return(Obj("A", [x |-> None])))

\* The call resolves a field from a type and literal metadata naming no
\* pre-built field.
ResolvesByType ==
    /\ call.op = "field_for_schema"
    /\ call.source[1] = "literal"
    /\ ~NamesField(call.source[2])
\* The call loads wire data with the schema of a decorated class whose x names
\* no pre-built field and whose other constructor arguments the data gives.
LoadsWithInferredX ==
    /\ call.op = "load"
    /\ call.clazz.decorated
    /\ ~NamesField(AttributeX.metadata)
    /\ ~Raised(class_schema(call.clazz))
    /\ DOMAIN call.value.val \subseteq Range(InitNames(call.clazz))
    /\ Range(InitNames(call.clazz)) \ {"x"} \subseteq DOMAIN call.value.val
IsOptionalDeclaration(typ) == typ.kind = "generic" /\ typ.name = "Union" /\ IsOptionalType(typ)
DeclaredDefault(attribute) ==
    IF attribute.default_factory.type # "missing"
    THEN attribute.default_factory
    ELSE attribute.default

\* C17: a field resolved without a default from a type that is not Optional is
\* required whatever the metadata under "desert" says, and loading wire data
\* without its key raises ValidationError.
C17_NoDefaultMeansRequired ==
    /\ (/\ ResolvesByType
        /\ call.default.type = "missing"
        /\ ~IsOptionalDeclaration(call.typ)
        /\ ~Raised(result))
       => Required(result.val)
    /\ (/\ LoadsWithInferredX
        /\ DeclaredDefault(AttributeX).type = "missing"
        /\ ~IsOptionalDeclaration(AttributeX.type)
        /\ "x" \notin DOMAIN call.value.val)
       => result.exc = "ValidationError"

\* C18: a field resolved with a default value or factory is not required and
\* has it as dump default and as load default whatever the metadata under
\* "desert" says, the factory uncalled; loading wire data without the key
\* gives the default, or the factory's result.
C18_DefaultIsRecordedAndNotRequired ==
    /\ (/\ ResolvesByType
        /\ call.default.type # "missing"
        /\ ~Raised(result))
       => /\ ~Required(result.val)
          /\ DumpDefault(result.val) = call.default
          /\ LoadDefault(result.val) = call.default
    /\ (/\ LoadsWithInferredX
        /\ DeclaredDefault(AttributeX).type # "missing"
        /\ "x" \notin DOMAIN call.value.val)
       => /\ ~Raised(result)
          /\ result.val.val["x"] = DefaultValue(DeclaredDefault(AttributeX))

\* C19: List[T], Sequence[T] and MutableSequence[T] resolve to the List field of
\* T's field; Dict[K, V], Mapping[K, V] and MutableMapping[K, V] to the Dict
\* field of K's and V's fields.
C19_ProtocolContainersResolveLikeConcrete ==
    (ResolvesByType /\ call.typ.kind = "generic")
    => /\ call.typ.name \in {"list", "Sequence", "MutableSequence"}
          => /\ ~Raised(result)
             /\ result.val.codec = "List"
             /\ result.val.of[1].codec = "Integer"
       /\ call.typ.name \in {"dict", "Mapping", "MutableMapping"}
          => /\ ~Raised(result)
             /\ result.val.codec = "Dict"
             /\ result.val.of[1].codec = "String"
             /\ result.val.of[2].codec = "Integer"

\* C20: with x: Tuple[int, ...], loading {"x": [1, 2, 3]} gives x = (1, 2, 3)
\* and dumping what was loaded gives {"x": [1, 2, 3]} back.
C20_VariableLengthTupleRoundTrips ==
    LET wire == PyList(<<PyInt(1), PyInt(2), PyInt(3)>>)
        applies == /\ call.op \in {"load", "load_dump"}
                   /\ call.clazz.decorated
                   /\ Len(call.clazz.fields) = 1
                   /\ AttributeX.type = Generic("tuple", <<IntType, Ellipsis>>)
                   /\ AttributeX.metadata = EmptyMap
                   /\ DeclaredDefault(AttributeX).type = "missing"
                   /\ call.value = PyDict("x" :> wire)
    IN  /\ (applies /\ call.op = "load")
           => SameResult(result, Return(Obj("A", [x |-> PyTuple(wire.val)])))
        /\ (applies /\ call.op = "load_dump")
           => SameResult(result, Return(call.value))

----------------------------------------------------------------------------
(* The claims about the registry's lookups and the union field's frame.    *)

\* The same convention built by its from-registry constructor.
ConstructFromRegistry(c) ==
    CASE c[1] = "external" -> externally_tagged_union_from_registry("registry")
      [] c[1] = "internal" -> internally_tagged_union_from_registry("registry", c[2])
      [] c[1] = "adjacent" -> adjacently_tagged_union_from_registry("registry", c[2])

\* C25: a field made by a from-registry constructor serializes and
\* deserializes as the field the direct constructor makes from the registry's
\* from_object and from_tag and the same reserved keys, whatever was
\* registered since the field was made.
C25_FromRegistryIsTheDirectConstructor ==
    /\ \A c \in Constructions : ConstructFromRegistry(c) = Construct(c)
    /\ call.op = "serialize" =>
          SameResult(result,
              TaggedUnionField_serialize_attr(
                  Construct(<<Convention(call.field), NoKeywords>>),
                  by_tag, call.attr, call.obj))
    /\ call.op = "deserialize" =>
          SameResult(result,
              TaggedUnionField_deserialize(
                  Construct(<<Convention(call.field), NoKeywords>>),
                  by_tag, call.value).res)

\* An adjacently tagged item decoded through an entry registered, as every
\* entry is, after the field was made.
C25_Witness ==
    /\ call.op = "deserialize"
    /\ Convention(call.field) = "adjacent"
    /\ Len(by_tag) >= 2
    /\ SameResult(result, Return(Max_the_cat))

\* C26: from_object raises NoMatchingHintFound whenever no entry scores above
\* 0, on a registry without entries as on one whose entries all score 0.
C26_EmptyRegistryRaisesNoMatchingHint ==
    (/\ call.op = "from_object"
     /\ \A i \in 1..Len(by_tag) : Score(Entries[i], call.value) = 0)
    => result.exc = "NoMatchingHintFound"

\* C27: deserialize leaves the caller's wire mapping as it was, whether it
\* returns or raises, so deserializing the mapping again gives the same outcome.
C27_DeserializeLeavesTheWireUnchanged ==
    call.op = "deserialize" =>
        /\ item = call.value
        /\ SameResult(TaggedUnionField_deserialize(call.field, by_tag, item).res, result)

\* The registries holding the entries of d, registered in every order.
Reorderings(d) == {[i \in 1..Len(d) |-> d[p[i]]] : p \in Permutations(1..Len(d))}

\* The same entry, or the same error, with the same set of tied hints.
SameOutcome(r, s) ==
    /\ r.exc = s.exc
    /\ r.exc = "none" => r.val = s.val
    /\ r.exc = "MultipleMatchingHintsFound" => Range(r.val.hints) = Range(s.val.hints)

\* C29: from_object gives the same outcome on every registry that holds the
\* same entries, whatever the order they were registered in.
C29_FromObjectIgnoresRegistrationOrder ==
    call.op = "from_object" =>
        \A d \in Reorderings(by_tag) : SameOutcome(from_object(d, call.value), result)

\* Two entries with different hints tie for a value, and an entry is returned
\* that was not the first registered.
C29_Witness ==
    /\ call.op = "from_object"
    /\ \/ /\ result.exc = "MultipleMatchingHintsFound"
          /\ Cardinality(Range(result.val.hints)) >= 2
       \/ /\ ~Raised(result)
          /\ Len(by_tag) >= 2
          /\ result.val # by_tag[1][2]

----------------------------------------------------------------------------
(* The claims about what schema building refuses, copies and leaves alone. *)

\* class_schema itself is called, on a decorated class.
BuildsDirectly ==
    /\ call.op = "class_schema"
    /\ call.how[1] = "desert._make.class_schema"
    /\ call.clazz.decorated
TakesSelf(attribute) ==
    attribute.default_factory.type = "factory" /\ attribute.default_factory.takes_self

\* A bare list, a bare dict, and a generic whose origin desert does not know.
UnknownDeclarations ==
    {Class("list", FALSE, <<>>), Class("dict", FALSE, <<>>),
     Generic("UnknownGeneric", <<IntType>>)}

\* C21: building the schema of a class with a field declared as a bare list or
\* dict, or as a generic of an unrecognized origin, raises UnknownType naming
\* the declaration, and no other error.
C21_UnknownTypeIsRaised ==
    (/\ BuildsDirectly
     /\ AttributeX.type \in UnknownDeclarations
     /\ ~NamesField(AttributeX.metadata)
     /\ ~TakesSelf(AttributeX))
    => /\ result.exc = "UnknownType"
       /\ result.val = AttributeX.type.name

\* C22: a NewType alias resolves to the field its supertype resolves to from
\* the same default and metadata, with the same requiredness, defaults and
\* caller-supplied settings, and with the alias's name as its description.
C22_NewTypeResolvesAsItsSupertype ==
    (ResolvesByType /\ call.typ.kind = "newtype") =>
        LET direct == field_for_schema(call.typ.supertype, call.default, call.source[2]).res
        IN  /\ ~Raised(direct) => ~Raised(result)
            /\ ~Raised(result) =>
                  /\ result.val.codec = direct.val.codec
                  /\ Required(result.val) = Required(direct.val)
                  /\ DumpDefault(result.val) = DumpDefault(direct.val)
                  /\ LoadDefault(result.val) = LoadDefault(direct.val)
                  /\ \A k \in DOMAIN Settings(direct.val) :
                        /\ k \in DOMAIN Settings(result.val)
                        /\ Settings(result.val)[k] = Settings(direct.val)[k]
                  /\ Get(Settings(result.val), "description", None) = PyStr(call.typ.name)

C24_MethodsAreNotCopied ==
    (BuildsDirectly /\ "methods" \in DOMAIN call.clazz /\ ~Raised(result))
    => \A m \in call.clazz.methods :
          StartsWithUnderscore(m) \/ m \notin result.val.attributes

\* C28: resolving a field leaves the caller's metadata, the mapping under
\* "desert" included, as it was, for field_for_schema called on its own and for
\* the first attribute class_schema resolves.
C28_ResolutionLeavesMetadataUnchanged ==
    /\ (call.op = "field_for_schema" /\ call.source[1] = "literal")
       => item = PyDict(call.source[2])
    /\ (BuildsDirectly /\ ~TakesSelf(AttributeX))
       => MetadataAfter(AttributeX.metadata,
                        field_for_schema(AttributeX.type,
                                         get_field_default(AttributeX).val,
                                         AttributeX.metadata).metadata)
          = AttributeX.metadata

\* C30: class_schema returns a schema for a class whose attribute refers to
\* the class itself by name, as the annotation or inside a list, and the field
\* holds the name for the Nested field to resolve when it is used.
C30_SelfReferenceResolvesLazily ==
    (/\ BuildsDirectly
     /\ ~NamesField(AttributeX.metadata)
     /\ ~TakesSelf(AttributeX)
     /\ AttributeX.type \in {StringAnnotation(call.clazz.name),
                             Generic("list", <<ForwardRef(call.clazz.name)>>)})
    => /\ ~Raised(result)
       /\ LET field == result.val.fields[1][2]
              nested == IF AttributeX.type.kind = "generic" THEN field.of[1] ELSE field
          IN  /\ AttributeX.type.kind = "generic" => field.codec = "List"
              /\ nested.codec = "Nested"
              /\ nested.of = call.clazz.name

====
